---- MODULE Spec2Model ----
(***************************************************************************)
(* Model of the RAK811 v2 serial transport (rak811v2/serial.py) and of the *)
(* command / collector layer built on it (rak811v2/rak811v2.py).           *)
(*                                                                         *)
(* Text is modelled as a sequence of one-character strings, so that        *)
(* str.startswith, str.rstrip, slicing and bytes.decode are computed as    *)
(* the code computes them.  The byte 0xFF stands for any non-ASCII byte.   *)
(***************************************************************************)
EXTENDS Integers, Sequences, FiniteSets, TLC

(***************************************************************************)
(* Bounds of the model.                                                    *)
(***************************************************************************)
\* number of lines the module emits during a run
MaxLines == 2
\* number of foreground operations the caller issues during a run
MaxOps == 2
\* largest timeout, in time units, a caller passes or a session is built with
MaxT == 1

(***************************************************************************)
(* Text constants.                                                         *)
(***************************************************************************)
CR == "\r"
LF == "\n"
NonAscii == "0xFF"

\* serial.py: EOL = '\r\n'
EOL == <<CR, LF>>

\* serial.py: RESPONSE_OK = 'OK'
RESPONSE_OK == <<"O", "K">>

\* serial.py: RESPONSE_OK_INIT = 'Initialization OK'
RESPONSE_OK_INIT ==
    <<"I", "n", "i", "t", "i", "a", "l", "i", "z", "a", "t", "i", "o", "n",
      " ", "O", "K">>

\* serial.py: RESPONSE_ERROR = 'ERROR'   (no colon)
SERIAL_RESPONSE_ERROR == <<"E", "R", "R", "O", "R">>

\* rak811v2.py: RESPONSE_ERROR = 'ERROR:'
RESPONSE_ERROR == <<"E", "R", "R", "O", "R", ":">>

\* serial.py: RESPONSE_EVENT = 'at+recv='
RESPONSE_EVENT == <<"a", "t", "+", "r", "e", "c", "v", "=">>

(***************************************************************************)
(* String primitives of Python, computed on character sequences.           *)
(***************************************************************************)
\* str.startswith(prefix)
StartsWith(s, prefix) ==
    /\ Len(prefix) <= Len(s)
    /\ SubSeq(s, 1, Len(prefix)) = prefix

\* s[n:]
Slice(s, n) == SubSeq(s, n + 1, Len(s))

Range(s) == {s[i] : i \in 1..Len(s)}

\* str.rstrip(chars): drops every trailing character that is in chars
RECURSIVE RStrip(_, _)
RStrip(s, chars) ==
    IF Len(s) > 0 /\ s[Len(s)] \in Range(chars)
    THEN RStrip(SubSeq(s, 1, Len(s) - 1), chars)
    ELSE s

\* bytes.decode('ascii') succeeds iff every byte is below 0x80
DecodeOk(raw) == \A i \in 1..Len(raw) : raw[i] # NonAscii

\* line.decode('ascii').rstrip(EOL) in _read_loop
DecodeLine(raw) == RStrip(raw, EOL)

(***************************************************************************)
(* What the module can put on the wire: the results of Serial.readline().  *)
(***************************************************************************)
Raw_OK == <<"O", "K", CR, LF>>
Raw_OK_INIT == RESPONSE_OK_INIT \o EOL
Raw_ERROR == <<"E", "R", "R", "O", "R", ":", "8", "6", CR, LF>>
Raw_ERROR_NoColon == <<"E", "R", "R", "O", "R", " ", "2", CR, LF>>
Raw_EVENT == <<"a", "t", "+", "r", "e", "c", "v", "=", "5", ",", "1", CR, LF>>
Raw_INFO == <<"h", "i", CR, LF>>
Raw_NonAscii == <<"O", "K", NonAscii, CR, LF>>

RawLines ==
    {Raw_OK, Raw_OK_INIT, Raw_ERROR, Raw_ERROR_NoColon, Raw_EVENT, Raw_INFO,
     Raw_NonAscii}

\* the command the caller passes to _send_command / send_command
Commands == {<<"j", "o", "i", "n">>}

\* 'at+{0}\r\n'.format(command)
FormatCommand(command) == <<"a", "t", "+">> \o command \o <<CR, LF>>

\* a timeout argument: <<>> is None, <<t>> is the number t
TimeoutArgs == {<<>>} \cup {<<t>> : t \in 1..MaxT}

QueueNames == {"Resp_q", "Info_q", "RecvEvents_q"}

(***************************************************************************)
(* Error catalog and typed errors (rak811v2.py).                           *)
(***************************************************************************)
\* ResponseCode.Unknown
ResponseCode_Unknown == 0 - 1

\* RESPONSE_MESSAGE: status code -> message
RESPONSE_MESSAGE ==
    (ResponseCode_Unknown :> "Unknown")
    @@ (1 :> "BAD AT Command")
    @@ (2 :> "Invalid parameter in AT command")
    @@ (3 :> "Error reading or writing flash")
    @@ (4 :> "Error reading or wrting through IIC")
    @@ (5 :> "Error sending through UART")
    @@ (41 :> "BLE in invalid state")
    @@ (80 :> "LoRa busy")
    @@ (81 :> "LoRa service unknown")
    @@ (82 :> "LoRa parameters invalid")
    @@ (83 :> "LoRa frequency invalid")
    @@ (84 :> "LoRa datarate invalid")
    @@ (85 :> "LoRa frequency and datarate are invalid")
    @@ (86 :> "Device has not joined a LoRa network")
    @@ (87 :> "Packet too long to be sent")
    @@ (88 :> "Service closed by server")
    @@ (89 :> "Unsupported region")
    @@ (90 :> "Duty cycle restricted")
    @@ (91 :> "No valid channel can be found")
    @@ (92 :> "No free channel found")
    @@ (93 :> "Status is error")
    @@ (94 :> "LoRa transmit tiemout")
    @@ (95 :> "LoRa RX1 timeout")
    @@ (96 :> "LoRa RX2 timeout")
    @@ (97 :> "Error receving in RX1")
    @@ (98 :> "Error receiving in RX2")
    @@ (99 :> " LoRa join failed")
    @@ (100 :> "Downlink repeated")
    @@ (101 :> "Payload size error with transmit DR")
    @@ (102 :> "Too many downlink frames lost")
    @@ (103 :> "Address fail")
    @@ (104 :> "Error verifying MIC")

Digits == {"0", "1", "2", "3", "4", "5", "6", "7", "8", "9"}

DigitValue(c) ==
    CASE c = "0" -> 0 [] c = "1" -> 1 [] c = "2" -> 2 [] c = "3" -> 3
      [] c = "4" -> 4 [] c = "5" -> 5 [] c = "6" -> 6 [] c = "7" -> 7
      [] c = "8" -> 8 [] c = "9" -> 9

\* str.strip() of the blanks that int() ignores around a literal
RECURSIVE LStripBlank(_)
LStripBlank(s) ==
    IF Len(s) > 0 /\ s[1] = " " THEN LStripBlank(Tail(s)) ELSE s

StripBlank(s) == LStripBlank(RStrip(s, <<" ">>))

\* the digits of a decimal literal, sign removed
Unsigned(s) == IF Len(s) > 0 /\ s[1] \in {"+", "-"} THEN Tail(s) ELSE s

\* int(text) succeeds: optional blanks, optional sign, then digits, where
\* single underscores may separate digits
IsIntText(text) ==
    LET u == Unsigned(StripBlank(text))
    IN  /\ Len(u) > 0
        /\ u[1] \in Digits
        /\ u[Len(u)] \in Digits
        /\ \A i \in 1..Len(u) : u[i] \in Digits \cup {"_"}
        /\ \A i \in 1..(Len(u) - 1) : ~(u[i] = "_" /\ u[i + 1] = "_")

RECURSIVE DecimalValue(_)
DecimalValue(u) ==
    IF Len(u) = 0 THEN 0
    ELSE IF u[Len(u)] = "_" THEN DecimalValue(SubSeq(u, 1, Len(u) - 1))
    ELSE 10 * DecimalValue(SubSeq(u, 1, Len(u) - 1)) + DigitValue(u[Len(u)])

\* int(text), for a text with IsIntText(text)
IntOf(text) ==
    LET t == StripBlank(text)
        v == DecimalValue(Unsigned(t))
    IN  IF t[1] = "-" THEN 0 - v ELSE v

\* variant of __init__: a code that is not in the table is replaced by
\* ResponseCode.Unknown (self.errno = ResponseCode.Unknown)
Rak811v2ResponseError_CollapseUnknown(code) ==
    LET isInt == IsIntText(code)
        known == isInt /\ IntOf(code) \in DOMAIN RESPONSE_MESSAGE
    IN  [isInt |-> known,
         errno |-> IF known THEN IntOf(code) ELSE ResponseCode_Unknown,
         text |-> <<>>,
         strerror |-> IF known THEN RESPONSE_MESSAGE[IntOf(code)]
                      ELSE RESPONSE_MESSAGE[ResponseCode_Unknown]]

\* Rak811v2ResponseError.__init__(code), for a text code.  errno is the
\* integer when the text parses (isInt), else the text itself.
Rak811v2ResponseError(code) ==
    LET isInt == IsIntText(code)
        known == isInt /\ IntOf(code) \in DOMAIN RESPONSE_MESSAGE
    IN  [isInt |-> isInt,
         errno |-> IF isInt THEN IntOf(code) ELSE 0,
         text |-> IF isInt THEN <<>> ELSE code,
         strerror |-> IF known THEN RESPONSE_MESSAGE[IntOf(code)]
                      ELSE RESPONSE_MESSAGE[ResponseCode_Unknown]]

DigitChar(d) ==
    CASE d = 0 -> "0" [] d = 1 -> "1" [] d = 2 -> "2" [] d = 3 -> "3"
      [] d = 4 -> "4" [] d = 5 -> "5" [] d = 6 -> "6" [] d = 7 -> "7"
      [] d = 8 -> "8" [] d = 9 -> "9"

RECURSIVE NatToText(_)
NatToText(n) ==
    IF n < 10 THEN <<DigitChar(n)>>
    ELSE NatToText(n \div 10) \o <<DigitChar(n % 10)>>

\* str(i) of an integer, as '{}'.format(i) writes it
IntToText(i) == IF i < 0 THEN <<"-">> \o NatToText(0 - i) ELSE NatToText(i)

\* '[Errno {}] {}'.format(self.errno, self.strerror): the text of the
\* exception, character by character up to the message, which is its last
\* element
ErrorText(err) ==
    <<"[", "E", "r", "r", "n", "o", " ">>
    \o (IF err.isInt THEN IntToText(err.errno) ELSE err.text)
    \o <<"]", " ">> \o <<err.strerror>>

(***************************************************************************)
(* State.                                                                  *)
(***************************************************************************)
VARIABLES
    \* Rak811v2Serial
    Q,                  \* Resp_q, Info_q, RecvEvents_q: FIFO of [id, line]
    read_done,          \* _read_done Event
    serial_open,        \* the Serial port is open
    response_timeout,   \* _response_timeout: one time unit in this session
    event_timeout,      \* _event_timeout: the longest timeout of the model
    written,            \* what has been written to the port, in order
    \* the read thread (_read_loop)
    rpc,                \* "loop", "read", "route", "stopped", "crashed"
    rline,              \* the decoded line being routed
    rtodo,              \* the puts of the current line still to do
    nRead,              \* number of lines read from the port so far
    pushes,             \* history: queues the current line was put on
    \* Rak811v2
    x,                  \* self.x
    events,             \* self.events
    \* the foreground caller
    cpc,                \* position of the caller: "idle", inside an
                        \* operation, or "done" with its outcome
    op,                 \* the operation in progress or last finished
    response,           \* local variable of _send_command
    remaining,          \* time left of the blocking get in progress
    result,             \* outcome of the last finished operation
    nOps,               \* number of operations started so far
    \* history of the current operation
    staleMax,           \* highest line id fully routed when a clear started
    takenLog,           \* items the operation dequeued with a blocking get
    cleared,            \* items the queue clearing in progress has removed
    arrived,            \* an item was put on the awaited queue while waiting
    waited,             \* time waited by the blocking get in progress, or
                        \* by the one that has just timed out
    \* threads that are inside get_info / get_events of the session
    callers             \* per such thread: position, call, captured list,
                        \* items dequeued, outcome

vars ==
    <<Q, read_done, serial_open, response_timeout, event_timeout, written,
      rpc, rline, rtodo, nRead, pushes, x, events, cpc, op, response,
      remaining, result, nOps, staleMax, takenLog, cleared, arrived,
      waited, callers>>

serialVars == <<read_done, serial_open, response_timeout, event_timeout>>
readerVars == <<rpc, rline, rtodo, nRead, pushes>>
callerVars ==
    <<x, events, cpc, op, response, remaining, result, nOps, staleMax,
      takenLog, cleared>>

NoOp == [name |-> "none", timeout |-> 0, command |-> <<>>, clearq |-> FALSE]
NoResult == [kind |-> "none", val |-> <<>>]

\* the threads that share the session in the two-caller runs
Callers == {"A", "B"}

Init ==
    /\ Q = [n \in QueueNames |-> <<>>]
    /\ read_done = FALSE
    /\ serial_open = TRUE
    /\ response_timeout = 1
    /\ event_timeout = MaxT
    /\ written = <<>>
    /\ rpc = "loop"
    /\ rline = <<>>
    /\ rtodo = <<>>
    /\ nRead = 0
    /\ pushes = <<>>
    /\ x = <<>>
    /\ events = <<>>
    /\ cpc = "idle"
    /\ op = NoOp
    /\ response = <<>>
    /\ remaining = 0
    /\ result = NoResult
    /\ nOps = 0
    /\ staleMax = 0
    /\ takenLog = <<>>
    /\ cleared = <<>>
    /\ arrived = FALSE
    /\ waited = 0
    \* no thread is inside get_info / get_events
    /\ callers = [c \in {} |-> NoResult]

(***************************************************************************)
(* The read thread: Rak811v2Serial._read_loop.                             *)
(***************************************************************************)
\* variant of the chain: an OK line is put on Info_q before Resp_q
ReadLoopRoute_InfoFirst(line) ==
    IF StartsWith(line, RESPONSE_OK) THEN <<"Info_q", "Resp_q">>
    ELSE IF StartsWith(line, SERIAL_RESPONSE_ERROR) THEN <<"Resp_q">>
    ELSE IF StartsWith(line, RESPONSE_EVENT) THEN <<"RecvEvents_q">>
    ELSE IF StartsWith(line, RESPONSE_OK_INIT) THEN <<"Info_q", "Resp_q">>
    ELSE <<"Info_q">>

\* variant of the chain: an error line is also put on Info_q
ReadLoopRoute_ErrorToInfo(line) ==
    IF StartsWith(line, RESPONSE_OK) THEN <<"Resp_q", "Info_q">>
    ELSE IF StartsWith(line, SERIAL_RESPONSE_ERROR) THEN <<"Resp_q", "Info_q">>
    ELSE IF StartsWith(line, RESPONSE_EVENT) THEN <<"RecvEvents_q">>
    ELSE IF StartsWith(line, RESPONSE_OK_INIT) THEN <<"Resp_q", "Info_q">>
    ELSE <<"Info_q">>

\* the if/elif chain of _read_loop: the queues a line is put on, in order
ReadLoopRoute(line) ==
    IF StartsWith(line, RESPONSE_OK) THEN <<"Resp_q", "Info_q">>
    ELSE IF StartsWith(line, SERIAL_RESPONSE_ERROR) THEN <<"Resp_q">>
    ELSE IF StartsWith(line, RESPONSE_EVENT) THEN <<"RecvEvents_q">>
    ELSE IF StartsWith(line, RESPONSE_OK_INIT) THEN <<"Resp_q", "Info_q">>
    ELSE <<"Info_q">>

\* variant of the loop test: "while True:"
LoopContinues_IgnoresSignal(done) == TRUE

\* the loop test "not self._read_done.is_set()"
LoopContinues(done) == ~done

\* while not self._read_done.is_set():
ReaderLoop ==
    /\ rpc = "loop"
    /\ rpc' = IF LoopContinues(read_done) THEN "read" ELSE "stopped"
    /\ rline' = <<>>
    /\ pushes' = <<>>
    /\ UNCHANGED callers
    /\ UNCHANGED <<Q, serialVars, written, rtodo, nRead, callerVars, arrived,
                   waited>>

\* readline() returns b'' after the poll timeout: continue
ReaderReadEmpty ==
    /\ rpc = "read"
    /\ rpc' = "loop"
    /\ UNCHANGED callers
    /\ UNCHANGED <<Q, serialVars, written, rline, rtodo, nRead, pushes,
                   callerVars, arrived, waited>>

\* readline() returns a line that decodes; it is stripped and classified
ReaderReadLine ==
    /\ rpc = "read"
    /\ nRead < MaxLines
    /\ \E raw \in RawLines :
        /\ DecodeOk(raw)
        /\ rline' = DecodeLine(raw)
        /\ rtodo' = ReadLoopRoute(DecodeLine(raw))
    /\ nRead' = nRead + 1
    /\ rpc' = "route"
    /\ UNCHANGED callers
    /\ UNCHANGED <<Q, serialVars, written, pushes, callerVars, arrived,
                   waited>>

\* readline() returns a line with a non-ASCII byte: decode('ascii') raises
\* UnicodeDecodeError, which nothing catches, and the thread ends
ReaderDecodeError ==
    /\ rpc = "read"
    /\ nRead < MaxLines
    /\ \E raw \in RawLines : ~DecodeOk(raw)
    /\ nRead' = nRead + 1
    /\ rpc' = "crashed"
    /\ UNCHANGED callers
    /\ UNCHANGED <<Q, serialVars, written, rline, rtodo, pushes, callerVars,
                   arrived, waited>>

\* the queue the caller is blocked on, if any
AwaitedQueue ==
    IF cpc # "get" THEN "none"
    ELSE IF op.name \in {"execute", "take_response"} THEN "Resp_q"
    ELSE IF op.name \in {"take_info", "collect_info"} THEN "Info_q"
    ELSE "RecvEvents_q"

\* one self.<queue>.put(line) of the current line
ReaderPut ==
    /\ rpc = "route"
    /\ LET q == Head(rtodo)
       IN  /\ Q' = [Q EXCEPT ![q] = Append(@, [id |-> nRead, line |-> rline])]
           /\ pushes' = Append(pushes, q)
           /\ arrived' = IF q = AwaitedQueue THEN TRUE ELSE arrived
    /\ rtodo' = Tail(rtodo)
    /\ rpc' = IF Len(rtodo) = 1 THEN "loop" ELSE "route"
    /\ UNCHANGED callers
    /\ UNCHANGED <<serialVars, written, rline, nRead, callerVars, waited>>

(***************************************************************************)
(* The foreground caller.                                                  *)
(***************************************************************************)
\* highest id of a line whose puts have all been done
FullyRouted == IF rpc = "route" THEN nRead - 1 ELSE nRead

\* get_response / get_info / get_event: "if timeout is None: timeout = ...".
\* The defaults of a session never change, so the operation record keeps the
\* timeout already resolved.
ResolveTimeout(q, t) ==
    IF t = <<>>
    THEN (IF q = "RecvEvents_q" THEN event_timeout ELSE response_timeout)
    ELSE t[1]

\* variant of the get: q.get(False) raises Empty at once on an empty queue
GetTimedOut_NonBlocking(rem) == TRUE

\* SimpleQueue.get(True, timeout) raises Empty once the timeout has run out
GetTimedOut(rem) == rem = 0

\* the operation ends with outcome r (a return value or a raised exception)
Finish(r) ==
    /\ result' = r
    /\ cpc' = "done"

Begin(o) ==
    /\ cpc = "idle"
    /\ nOps < MaxOps
    /\ nOps' = nOps + 1
    /\ op' = o
    /\ UNCHANGED callers
    /\ UNCHANGED <<result, takenLog, cleared, response, arrived, waited>>

\* Rak811v2._send_command(command, timeout): enters send_command(command)
CallExecute ==
    \E c \in Commands, t \in TimeoutArgs :
        /\ Begin([name |-> "execute", timeout |-> ResolveTimeout("Resp_q", t),
                  command |-> c, clearq |-> TRUE])
        /\ cpc' = "clear_info"
        /\ remaining' = 0
        /\ staleMax' = FullyRouted
        /\ UNCHANGED <<Q, serialVars, written, readerVars, x, events>>

\* Rak811v2Serial.send_command(command, clearq)
CallSend ==
    \E c \in Commands, clr \in BOOLEAN :
        /\ Begin([name |-> "send", timeout |-> 0, command |-> c,
                  clearq |-> clr])
        /\ cpc' = IF clr THEN "clear_info" ELSE "write"
        /\ remaining' = 0
        /\ staleMax' = IF clr THEN FullyRouted ELSE staleMax
        /\ UNCHANGED <<Q, serialVars, written, readerVars, x, events>>

\* variant of _clear_q: "if not q.empty()" instead of "while not q.empty()"
ClearStep_Once(here, q, next) ==
    /\ cpc = here
    /\ IF Q[q] # <<>>
       THEN /\ Q' = [Q EXCEPT ![q] = Tail(@)]
            /\ cleared' = Append(cleared, Head(Q[q]))
       ELSE /\ Q' = Q
            /\ cleared' = cleared
    /\ cpc' = next
    /\ UNCHANGED callers
    /\ UNCHANGED <<serialVars, written, readerVars, x, events, op, response,
                   remaining, result, nOps, staleMax, takenLog, arrived,
                   waited>>

\* _clear_q(q): one turn of "while not q.empty(): q.get(False)"
ClearStep(here, q, next) ==
    /\ cpc = here
    /\ IF Q[q] # <<>>
       THEN /\ Q' = [Q EXCEPT ![q] = Tail(@)]
            /\ cleared' = Append(cleared, Head(Q[q]))
            /\ cpc' = here
       ELSE /\ Q' = Q
            /\ cleared' = cleared
            /\ cpc' = next
    /\ UNCHANGED callers
    /\ UNCHANGED <<serialVars, written, readerVars, x, events, op, response,
                   remaining, result, nOps, staleMax, takenLog, arrived,
                   waited>>

\* _clear_all_qs: Info_q, then RecvEvents_q, then Resp_q
ClearInfo == ClearStep("clear_info", "Info_q", "clear_events")
ClearEvents == ClearStep("clear_events", "RecvEvents_q", "clear_resp")
ClearResp == ClearStep("clear_resp", "Resp_q", "write")

\* send_string('at+{0}\r\n'.format(command)); for _send_command, go on to
\* response = "" and get_response(timeout).  Writing to a closed port raises.
Write ==
    /\ cpc = "write"
    /\ IF ~serial_open
       THEN /\ Finish([kind |-> "SerialException", val |-> <<>>])
            /\ UNCHANGED <<written, response, remaining, arrived, waited>>
       ELSE /\ written' = Append(written, FormatCommand(op.command))
            /\ IF op.name = "send"
               THEN /\ Finish([kind |-> "return", val |-> <<>>])
                    /\ UNCHANGED <<response, remaining, arrived, waited>>
               ELSE /\ cpc' = "get"
                    /\ response' = <<>>
                    /\ remaining' = op.timeout
                    /\ arrived' = FALSE
                    /\ waited' = 0
                    /\ UNCHANGED result
    /\ cleared' = <<>>
    /\ UNCHANGED callers
    /\ UNCHANGED <<Q, serialVars, readerVars, x, events, op, nOps, staleMax,
                   takenLog>>

\* variant of _send_command: the prefix is trimmed from a success line
\* (response = response[len(RESPONSE_OK):])
SendCommandOutcome_Trimmed(resp) ==
    IF StartsWith(resp, RESPONSE_OK)
    THEN [kind |-> "return", val |-> Slice(resp, Len(RESPONSE_OK))]
    ELSE IF StartsWith(resp, RESPONSE_OK_INIT)
    THEN [kind |-> "return", val |-> Slice(resp, Len(RESPONSE_OK_INIT))]
    ELSE IF StartsWith(resp, RESPONSE_ERROR)
    THEN [kind |-> "ResponseError",
          val |-> Rak811v2ResponseError(Slice(resp, Len(RESPONSE_ERROR)))]
    ELSE [kind |-> "ResponseError", val |-> Rak811v2ResponseError(resp)]

\* variant of _send_command: the error is built from the whole ERROR: line
SendCommandOutcome_WholeLine(resp) ==
    IF StartsWith(resp, RESPONSE_OK)
    THEN [kind |-> "return", val |-> resp]
    ELSE IF StartsWith(resp, RESPONSE_OK_INIT)
    THEN [kind |-> "return", val |-> resp]
    ELSE [kind |-> "ResponseError", val |-> Rak811v2ResponseError(resp)]

\* the part of _send_command after get_response returned: classify by prefix
SendCommandOutcome(resp) ==
    IF StartsWith(resp, RESPONSE_OK)
    THEN [kind |-> "return", val |-> resp]
    ELSE IF StartsWith(resp, RESPONSE_OK_INIT)
    THEN [kind |-> "return", val |-> resp]
    ELSE IF StartsWith(resp, RESPONSE_ERROR)
    THEN [kind |-> "ResponseError",
          val |-> Rak811v2ResponseError(Slice(resp, Len(RESPONSE_ERROR)))]
    ELSE [kind |-> "ResponseError", val |-> Rak811v2ResponseError(resp)]

\* variant of the except branch: "if len(response) != 0: raise"
SendCommandReraises_Inverted(resp) == Len(resp) # 0

\* "except Rak811v2TimeoutError: if len(response) == 0: raise"
SendCommandReraises(resp) == Len(resp) = 0

TimeoutError == [kind |-> "TimeoutError", val |-> <<>>]

\* variant of _send_command: taking the response also drops the oldest
\* line of Info_q
ExecuteGetResponse_DropsInfo ==
    /\ cpc = "get"
    /\ op.name = "execute"
    /\ Q["Resp_q"] # <<>>
    /\ LET item == Head(Q["Resp_q"])
       IN  /\ Q' = [Q EXCEPT !["Resp_q"] = Tail(@),
                             !["Info_q"] = IF @ # <<>> THEN Tail(@) ELSE @]
           /\ takenLog' = Append(takenLog, item)
           /\ response' = item.line
           /\ Finish(SendCommandOutcome(item.line))
    /\ remaining' = 0
    /\ waited' = 0
    /\ UNCHANGED callers
    /\ UNCHANGED <<serialVars, written, readerVars, x, events, op, nOps,
                   staleMax, cleared, arrived>>

\* _send_command: get_response(timeout) returns a line
ExecuteGetResponse ==
    /\ cpc = "get"
    /\ op.name = "execute"
    /\ Q["Resp_q"] # <<>>
    /\ LET item == Head(Q["Resp_q"])
       IN  /\ Q' = [Q EXCEPT !["Resp_q"] = Tail(@)]
           /\ takenLog' = Append(takenLog, item)
           /\ response' = item.line
           /\ Finish(SendCommandOutcome(item.line))
    /\ remaining' = 0
    /\ waited' = 0
    /\ UNCHANGED callers
    /\ UNCHANGED <<serialVars, written, readerVars, x, events, op, nOps,
                   staleMax, cleared, arrived>>

\* _send_command: get_response(timeout) raises Rak811v2TimeoutError
ExecuteTimeout ==
    /\ cpc = "get"
    /\ op.name = "execute"
    /\ Q["Resp_q"] = <<>>
    /\ GetTimedOut(remaining)
    /\ IF SendCommandReraises(response)
       THEN Finish(TimeoutError)
       ELSE Finish(SendCommandOutcome(response))
    /\ UNCHANGED callers
    /\ UNCHANGED <<Q, serialVars, written, readerVars, x, events, op,
                   response, remaining, nOps, staleMax, takenLog, cleared,
                   arrived, waited>>

\* time passes while a blocking get waits on an empty queue
Wait ==
    /\ cpc = "get"
    /\ Q[AwaitedQueue] = <<>>
    /\ remaining > 0
    /\ remaining' = remaining - 1
    /\ waited' = waited + 1
    /\ UNCHANGED callers
    /\ UNCHANGED <<Q, serialVars, written, readerVars, x, events, cpc, op,
                   response, result, nOps, staleMax, takenLog, cleared,
                   arrived>>

TakeQueue(name) ==
    IF name = "take_response" THEN "Resp_q"
    ELSE IF name = "take_info" THEN "Info_q"
    ELSE "RecvEvents_q"

\* Rak811v2Serial.get_response / get_info / get_event (timeout) is called
CallTake ==
    \E n \in {"take_response", "take_info", "take_event"}, t \in TimeoutArgs :
        /\ Begin([name |-> n, timeout |-> ResolveTimeout(TakeQueue(n), t),
                  command |-> <<>>, clearq |-> FALSE])
        /\ cpc' = "get"
        /\ remaining' = ResolveTimeout(TakeQueue(n), t)
        /\ UNCHANGED <<Q, serialVars, written, readerVars, x, events,
                       staleMax>>

\* variant of the get: the queue hands out its newest item (a LIFO queue)
TakeGet_Newest ==
    /\ cpc = "get"
    /\ op.name \in {"take_response", "take_info", "take_event"}
    /\ Q[TakeQueue(op.name)] # <<>>
    /\ LET q == TakeQueue(op.name)
           item == Q[q][Len(Q[q])]
       IN  /\ Q' = [Q EXCEPT ![q] = SubSeq(@, 1, Len(@) - 1)]
           /\ takenLog' = Append(takenLog, item)
           /\ Finish([kind |-> "return", val |-> item.line])
    /\ remaining' = 0
    /\ waited' = 0
    /\ UNCHANGED callers
    /\ UNCHANGED <<serialVars, written, readerVars, x, events, op, response,
                   nOps, staleMax, cleared, arrived>>

\* get_response / get_info / get_event: the queue's get returns an item
TakeGet ==
    /\ cpc = "get"
    /\ op.name \in {"take_response", "take_info", "take_event"}
    /\ Q[TakeQueue(op.name)] # <<>>
    /\ LET q == TakeQueue(op.name)
           item == Head(Q[q])
       IN  /\ Q' = [Q EXCEPT ![q] = Tail(@)]
           /\ takenLog' = Append(takenLog, item)
           /\ Finish([kind |-> "return", val |-> item.line])
    /\ remaining' = 0
    /\ waited' = 0
    /\ UNCHANGED callers
    /\ UNCHANGED <<serialVars, written, readerVars, x, events, op, response,
                   nOps, staleMax, cleared, arrived>>

\* get_response / get_info / get_event: "except Empty: raise
\* Rak811v2TimeoutError"
TakeTimeout ==
    /\ cpc = "get"
    /\ op.name \in {"take_response", "take_info", "take_event"}
    /\ Q[TakeQueue(op.name)] = <<>>
    /\ GetTimedOut(remaining)
    /\ Finish(TimeoutError)
    /\ UNCHANGED callers
    /\ UNCHANGED <<Q, serialVars, written, readerVars, x, events, op,
                   response, remaining, nOps, staleMax, takenLog, cleared,
                   arrived, waited>>

CollectQueue(name) ==
    IF name = "collect_info" THEN "Info_q" ELSE "RecvEvents_q"

\* variant of get_info / get_events: the accumulator is not reset
FreshAccumulator_Keep(old) == old

\* "self.x = []" / "self.events = []" at the top of get_info / get_events
FreshAccumulator(old) == <<>>

\* "if len(self.x) != 0: break" in the except branch; otherwise re-raise
CollectorReturns(acc) == Len(acc) # 0

\* the accumulator of the collector in progress
Accumulator == IF op.name = "collect_info" THEN x ELSE events

\* Rak811v2.get_info(timeout) / get_events(timeout) is called
CallCollect ==
    \E n \in {"collect_info", "collect_events"}, t \in TimeoutArgs :
        /\ Begin([name |-> n, timeout |-> ResolveTimeout(CollectQueue(n), t),
                  command |-> <<>>, clearq |-> FALSE])
        /\ x' = IF n = "collect_info" THEN FreshAccumulator(x) ELSE x
        /\ events' = IF n = "collect_events" THEN FreshAccumulator(events)
                     ELSE events
        /\ cpc' = "get"
        /\ remaining' = ResolveTimeout(CollectQueue(n), t)
        /\ UNCHANGED <<Q, serialVars, written, readerVars, staleMax>>

\* get_info / get_events: the take returns a line, which is appended; the
\* loop calls the take again with the same timeout
CollectGet ==
    /\ cpc = "get"
    /\ op.name \in {"collect_info", "collect_events", "process_events"}
    /\ Q[CollectQueue(op.name)] # <<>>
    /\ LET q == CollectQueue(op.name)
           item == Head(Q[q])
       IN  /\ Q' = [Q EXCEPT ![q] = Tail(@)]
           /\ takenLog' = Append(takenLog, item)
           /\ x' = IF op.name = "collect_info" THEN Append(x, item.line)
                   ELSE x
           /\ events' = IF op.name # "collect_info"
                        THEN Append(events, item.line) ELSE events
           /\ remaining' = op.timeout
           /\ arrived' = FALSE
           /\ waited' = 0
    /\ UNCHANGED callers
    /\ UNCHANGED <<serialVars, written, readerVars, cpc, op, response,
                   result, nOps, staleMax, cleared>>

\* get_info / get_events: the take raises Rak811v2TimeoutError.  When
\* get_events was called by _process_events, its return value goes to the
\* loops of _process_events.
CollectTimeout ==
    /\ cpc = "get"
    /\ op.name \in {"collect_info", "collect_events", "process_events"}
    /\ Q[CollectQueue(op.name)] = <<>>
    /\ GetTimedOut(remaining)
    /\ IF ~CollectorReturns(Accumulator)
       THEN Finish(TimeoutError)
       ELSE IF op.name = "process_events"
       THEN cpc' = "downlink_pass" /\ UNCHANGED result
       ELSE Finish([kind |-> "return", val |-> Accumulator])
    /\ UNCHANGED callers
    /\ UNCHANGED <<Q, serialVars, written, readerVars, x, events, op,
                   response, remaining, nOps, staleMax, takenLog, cleared,
                   arrived, waited>>

\* Rak811v2Serial.close(): self._read_done.set()
CallClose ==
    /\ Begin([name |-> "close", timeout |-> 0, command |-> <<>>,
              clearq |-> FALSE])
    /\ read_done' = TRUE
    /\ cpc' = "join"
    /\ remaining' = 0
    /\ UNCHANGED callers
    /\ UNCHANGED <<Q, serial_open, response_timeout, event_timeout, written,
                   readerVars, x, events, staleMax>>

\* close(): self._read_thread.join() returns once the thread has ended,
\* then self._serial.close()
CloseJoin ==
    /\ cpc = "join"
    /\ rpc \in {"stopped", "crashed"}
    /\ serial_open' = FALSE
    /\ Finish([kind |-> "return", val |-> <<>>])
    /\ UNCHANGED callers
    /\ UNCHANGED <<Q, read_done, response_timeout, event_timeout, written,
                   readerVars, x, events, op, response, remaining, nOps,
                   staleMax, takenLog, cleared, arrived, waited>>

\* control is back in the caller: the locals of the operation are gone
Return ==
    /\ cpc = "done"
    /\ cpc' = "idle"
    /\ op' = NoOp
    /\ result' = NoResult
    /\ response' = <<>>
    /\ remaining' = 0
    /\ takenLog' = <<>>
    /\ cleared' = <<>>
    /\ arrived' = FALSE
    /\ waited' = 0
    /\ UNCHANGED callers
    /\ UNCHANGED <<Q, serialVars, written, readerVars, x, events, nOps,
                   staleMax>>

Next ==
    \/ ReaderLoop
    \/ ReaderReadEmpty
    \/ ReaderReadLine
    \/ ReaderDecodeError
    \/ ReaderPut
    \/ CallExecute
    \/ CallSend
    \/ ClearInfo
    \/ ClearEvents
    \/ ClearResp
    \/ Write
    \/ ExecuteGetResponse
    \/ ExecuteTimeout
    \/ Wait
    \/ CallTake
    \/ TakeGet
    \/ TakeTimeout
    \/ CallCollect
    \/ CollectGet
    \/ CollectTimeout
    \/ CallClose
    \/ CloseJoin
    \/ Return

Spec == Init /\ [][Next]_vars

(***************************************************************************)
(* close() called by a second thread while the caller is inside a take.    *)
(* The position of the closing thread is read off the session: before the  *)
(* call read_done is unset, inside join() read_done is set and the port is *)
(* open, after the return the port is closed.                              *)
(***************************************************************************)
\* close(): self._read_done.set()
OtherClose ==
    /\ ~read_done
    /\ read_done' = TRUE
    /\ UNCHANGED callers
    /\ UNCHANGED <<Q, serial_open, response_timeout, event_timeout, written,
                   readerVars, callerVars, arrived, waited>>

\* variant of close(): the port is closed without joining the read thread
OtherCloseJoin_NoJoin ==
    /\ read_done
    /\ serial_open
    /\ serial_open' = FALSE
    /\ UNCHANGED callers
    /\ UNCHANGED <<Q, read_done, response_timeout, event_timeout, written,
                   readerVars, callerVars, arrived, waited>>

\* close(): self._read_thread.join() returns, then self._serial.close()
OtherCloseJoin ==
    /\ read_done
    /\ serial_open
    /\ rpc \in {"stopped", "crashed"}
    /\ serial_open' = FALSE
    /\ UNCHANGED callers
    /\ UNCHANGED <<Q, read_done, response_timeout, event_timeout, written,
                   readerVars, callerVars, arrived, waited>>

NextClose ==
    \/ ReaderLoop
    \/ ReaderReadEmpty
    \/ ReaderReadLine
    \/ ReaderDecodeError
    \/ ReaderPut
    \/ CallTake
    \/ TakeGet
    \/ TakeTimeout
    \/ Wait
    \/ Return
    \/ OtherClose
    \/ OtherCloseJoin

\* The read thread and the closing thread are scheduled; readline() returns
\* within the poll timeout of the port; SimpleQueue.put never blocks.
\* Nothing is assumed about the caller or about the passing of its timeout.
SpecClose ==
    /\ Init
    /\ [][NextClose]_vars
    /\ WF_vars(ReaderLoop)
    /\ WF_vars(ReaderReadEmpty \/ ReaderReadLine \/ ReaderDecodeError)
    /\ WF_vars(ReaderPut)
    /\ WF_vars(OtherCloseJoin)

(***************************************************************************)
(* Properties.                                                             *)
(***************************************************************************)
IsOkLine(line) ==
    StartsWith(line, RESPONSE_OK) \/ StartsWith(line, RESPONSE_OK_INIT)

\* the read thread has done every put of the line it read last
RoutingDone == rpc = "loop" /\ pushes # <<>>

IsPrefixOf(s, t) == Len(s) <= Len(t) /\ SubSeq(t, 1, Len(s)) = s

ItemIds(q) == {Q[q][i].id : i \in 1..Len(Q[q])}

\* C1: a line that starts with OK or Initialization OK is put on Resp_q and
\* then on Info_q by two consecutive puts of the read thread, both carrying
\* that line, and never on RecvEvents_q: while it is being routed the puts
\* done so far are a prefix of <<Resp_q, Info_q>>, and no queue holds a
\* later line; once routed the puts are exactly <<Resp_q, Info_q>>.
C1_OkToResponseThenInfo ==
    IsOkLine(rline) =>
        /\ IsPrefixOf(pushes, <<"Resp_q", "Info_q">>)
        /\ rpc = "loop" => pushes = <<"Resp_q", "Info_q">>
        /\ \A q \in QueueNames : \A i \in ItemIds(q) : i <= nRead
        /\ nRead \notin ItemIds("RecvEvents_q")

C1_Witness ==
    /\ RoutingDone
    /\ rline = DecodeLine(Raw_OK_INIT)
    /\ pushes = <<"Resp_q", "Info_q">>
    /\ nRead \in ItemIds("Resp_q") \cap ItemIds("Info_q")

\* C2: a line that starts with ERROR: is put on Resp_q only, and a line that
\* starts with at+recv= is put on RecvEvents_q only.
C2_ErrorAndEventRouting ==
    /\ StartsWith(rline, RESPONSE_ERROR) =>
        /\ IsPrefixOf(pushes, <<"Resp_q">>)
        /\ rpc = "loop" => pushes = <<"Resp_q">>
        /\ nRead \notin ItemIds("Info_q") \cup ItemIds("RecvEvents_q")
    /\ StartsWith(rline, RESPONSE_EVENT) =>
        /\ IsPrefixOf(pushes, <<"RecvEvents_q">>)
        /\ rpc = "loop" => pushes = <<"RecvEvents_q">>
        /\ nRead \notin ItemIds("Resp_q") \cup ItemIds("Info_q")

C2_Witness ==
    /\ RoutingDone
    /\ rline = DecodeLine(Raw_EVENT)
    /\ pushes = <<"RecvEvents_q">>
    /\ Len(Q["Resp_q"]) = 1
    /\ Q["Resp_q"][1].line = DecodeLine(Raw_ERROR)
    /\ Q["Info_q"] = <<>>

\* C3: a non-empty line that starts with none of OK, ERROR:, at+recv=,
\* Initialization OK is put on Info_q only.
C3_OtherLinesToInfoOnly ==
    (/\ rline # <<>>
     /\ ~IsOkLine(rline)
     /\ ~StartsWith(rline, RESPONSE_ERROR)
     /\ ~StartsWith(rline, RESPONSE_EVENT)) =>
        /\ IsPrefixOf(pushes, <<"Info_q">>)
        /\ rpc = "loop" => pushes = <<"Info_q">>

Lines(items) == [k \in 1..Len(items) |-> items[k].line]

ExecuteDone == cpc = "done" /\ op.name = "execute"

\* C4: execute takes at most one Response item; when it has taken one it
\* returns exactly when that item starts with OK or Initialization OK, and
\* the value returned is that item, prefix included; it never returns
\* without having taken exactly one item.
C4_ExecuteSuccess ==
    /\ op.name = "execute" => Len(takenLog) <= 1
    /\ (ExecuteDone /\ Len(takenLog) = 1) =>
        /\ result.kind = "return" <=> IsOkLine(takenLog[1].line)
        /\ result.kind = "return" => result.val = takenLog[1].line
    /\ (ExecuteDone /\ result.kind = "return") => Len(takenLog) = 1

C4_Witness ==
    /\ ExecuteDone
    /\ result = [kind |-> "return", val |-> RESPONSE_OK_INIT]
    /\ Lines(takenLog) = <<RESPONSE_OK_INIT>>

\* C5: when the item execute took starts with ERROR:, execute raises the
\* ResponseError built from the text after that prefix; when it starts with
\* none of OK, Initialization OK, ERROR:, execute raises the ResponseError
\* built from the whole line.
C5_ExecuteFailure ==
    (ExecuteDone /\ Len(takenLog) = 1) =>
        LET line == takenLog[1].line
            tail == SubSeq(line, Len(RESPONSE_ERROR) + 1, Len(line))
        IN  /\ StartsWith(line, RESPONSE_ERROR) =>
                /\ result.kind = "ResponseError"
                /\ result.val = Rak811v2ResponseError(tail)
            /\ (~IsOkLine(line) /\ ~StartsWith(line, RESPONSE_ERROR)) =>
                /\ result.kind = "ResponseError"
                /\ result.val = Rak811v2ResponseError(line)

C5_Witness ==
    /\ ExecuteDone
    /\ Lines(takenLog) = <<DecodeLine(Raw_ERROR)>>
    /\ result.kind = "ResponseError"
    /\ result.val.isInt
    /\ result.val.errno = 86
    /\ result.val.strerror = "Device has not joined a LoRa network"

\* the timeout a blocking get of the operation in progress runs with
ExpectedTimeout == op.timeout

\* C6: an execute that wrote its command and ended without taking a
\* Response item ended with TimeoutError, after waiting its whole timeout.
C6_ExecuteTimeoutPropagates ==
    (ExecuteDone /\ takenLog = <<>> /\ result.kind # "SerialException") =>
        /\ result = TimeoutError
        /\ waited = ExpectedTimeout

C6_Witness ==
    /\ ExecuteDone
    /\ takenLog = <<>>
    /\ result = TimeoutError
    /\ waited = ExpectedTimeout
    /\ written # <<>>

Clearing == cpc \in {"clear_info", "clear_events", "clear_resp"}

\* C7: once the clear of a send has completed, no queue holds a line that
\* was fully routed before the send started, and no blocking get of that
\* operation or of a later one has returned such a line.
C7_ClearOnSend ==
    ~Clearing =>
        /\ \A q \in QueueNames : \A i \in ItemIds(q) : i > staleMax
        /\ \A k \in 1..Len(takenLog) : takenLog[k].id > staleMax

\* the clear of a second execute has just removed the stale ERROR:86 that
\* the first command left on Resp_q
C7_Witness ==
    /\ cpc = "write"
    /\ op.name = "execute"
    /\ nOps = 2
    /\ Lines(cleared) = <<DecodeLine(Raw_ERROR)>>
    /\ cleared[1].id = 2
    /\ staleMax = 2
    /\ \A q \in QueueNames : Q[q] = <<>>

\* C8: when the clear of a send completes, every fully routed OK /
\* Initialization OK line is on both Resp_q and Info_q or on neither.
C8_ClearAtomicWithDualPush ==
    (cpc = "write" /\ op.clearq) =>
        \A q \in {"Resp_q", "Info_q"} : \A k \in 1..Len(Q[q]) :
            (IsOkLine(Q[q][k].line) /\ Q[q][k].id <= FullyRouted) =>
                Q[q][k].id \in ItemIds("Resp_q") \cap ItemIds("Info_q")

TakeDone ==
    cpc = "done" /\ op.name \in {"take_response", "take_info", "take_event"}

\* C9: a take raises TimeoutError only when it has waited its whole timeout
\* and no item was put on its queue meanwhile; when an item was put on the
\* queue while it waited, the take returns that item.
C9_TakeTimeout ==
    TakeDone =>
        /\ result.kind = "TimeoutError" =>
            /\ waited = ExpectedTimeout
            /\ ~arrived
            /\ takenLog = <<>>
        /\ arrived =>
            /\ result.kind = "return"
            /\ Len(takenLog) = 1
            /\ result.val = takenLog[1].line

C9_Witness ==
    /\ TakeDone
    /\ op.name = "take_response"
    /\ result = TimeoutError
    /\ waited = ExpectedTimeout
    /\ waited >= 1

CollectDone == cpc = "done" /\ op.name \in {"collect_info", "collect_events"}

\* C10: a collector raises TimeoutError exactly when it dequeued nothing;
\* otherwise it returns the lines it dequeued in this call, in the order
\* they were routed, and nothing else.
C10_CollectorResult ==
    CollectDone =>
        /\ result.kind \in {"return", "TimeoutError"}
        /\ result.kind = "TimeoutError" <=> takenLog = <<>>
        /\ result.kind = "return" =>
            /\ result.val = Lines(takenLog)
            /\ \A k \in 1..(Len(takenLog) - 1) :
                takenLog[k].id < takenLog[k + 1].id

\* a second collector call returned only the line it dequeued itself
C10_Witness ==
    /\ CollectDone
    /\ op.name = "collect_info"
    /\ nOps = 2
    /\ result.kind = "return"
    /\ Len(takenLog) = 1
    /\ takenLog[1].id = 2
    /\ result.val = <<takenLog[1].line>>
    /\ waited = ExpectedTimeout

\* the read thread has left _read_loop, by the loop test or by an exception
ReaderEnded == rpc \in {"stopped", "crashed"}

\* C11: no line makes the read thread stop: the thread never ends by an
\* exception raised while it handles a line, and it has left its loop only
\* when close() had set the shutdown signal.
C11_ReaderStopsOnlyOnSignal ==
    /\ rpc # "crashed"
    /\ ReaderEnded => read_done

\* C12: once close() has set the shutdown signal, the read thread ends and
\* close() returns (the port is closed), whatever the caller does; the read
\* thread, once at its loop test with the signal set, leaves the loop at its
\* next step, so it starts no further read-classify-route cycle.
C12_CloseReturns ==
    /\ [](read_done => <>(ReaderEnded /\ ~serial_open))
    /\ [][(read_done /\ rpc = "loop" /\ rpc' # rpc) => rpc' = "stopped"]_vars
    /\ [][ReaderEnded => rpc' = rpc]_vars

\* close() has returned while the caller is still blocked in take_event with
\* its whole timeout ahead
C12_Witness ==
    /\ ~serial_open
    /\ rpc = "stopped"
    /\ cpc = "get"
    /\ op.name = "take_event"
    /\ remaining = op.timeout
    /\ remaining > 0
    /\ waited = 0

\* a call the caller made after its close() had returned
AfterClose == ~serial_open /\ op.name \notin {"none", "close"}

\* C13: a call made after close() has returned does not wait on a queue, and
\* it ends with a failure.
C13_FailFastAfterClose ==
    AfterClose =>
        /\ waited = 0
        /\ cpc = "done" => result.kind # "return"

(***************************************************************************)
(* A module that never stops emitting.  The lists of the model keep their  *)
(* first MaxLines entries and the line counter stops at MaxLines, so that  *)
(* the state space stays finite; control flow reads only whether a list or *)
(* a queue is empty.  The module emits its next line when fewer than       *)
(* MaxLines lines are queued.                                              *)
(***************************************************************************)
\* list.append(item), of which the model keeps the first MaxLines entries
Capped(list, item) == IF Len(list) < MaxLines THEN Append(list, item) ELSE list

Queued == Len(Q["Resp_q"]) + Len(Q["Info_q"]) + Len(Q["RecvEvents_q"])

\* the lines the never-ending module emits: one per routing target
StreamLines == {Raw_OK, Raw_EVENT, Raw_INFO}

\* readline() returns a line that decodes; it is stripped and classified
StreamReadLine ==
    /\ rpc = "read"
    /\ Queued < MaxLines
    /\ \E raw \in StreamLines :
        /\ DecodeOk(raw)
        /\ rline' = DecodeLine(raw)
        /\ rtodo' = ReadLoopRoute(DecodeLine(raw))
    /\ nRead' = IF nRead < MaxLines THEN nRead + 1 ELSE nRead
    /\ rpc' = "route"
    /\ UNCHANGED callers
    /\ UNCHANGED <<Q, serialVars, written, pushes, callerVars, arrived,
                   waited>>

\* _clear_q(q): one turn of "while not q.empty(): q.get(False)"
StreamClearStep(here, q, next) ==
    /\ cpc = here
    /\ IF Q[q] # <<>>
       THEN /\ Q' = [Q EXCEPT ![q] = Tail(@)]
            /\ cleared' = Capped(cleared, Head(Q[q]))
            /\ cpc' = here
       ELSE /\ Q' = Q
            /\ cleared' = cleared
            /\ cpc' = next
    /\ UNCHANGED callers
    /\ UNCHANGED <<serialVars, written, readerVars, x, events, op, response,
                   remaining, result, nOps, staleMax, takenLog, arrived,
                   waited>>

StreamClearInfo == StreamClearStep("clear_info", "Info_q", "clear_events")
StreamClearEvents ==
    StreamClearStep("clear_events", "RecvEvents_q", "clear_resp")
StreamClearResp == StreamClearStep("clear_resp", "Resp_q", "write")

\* send_string('at+{0}\r\n'.format(command)) of send_command
StreamWrite ==
    /\ cpc = "write"
    /\ op.name = "send"
    /\ written' = Capped(written, FormatCommand(op.command))
    /\ Finish([kind |-> "return", val |-> <<>>])
    /\ cleared' = <<>>
    /\ UNCHANGED callers
    /\ UNCHANGED <<Q, serialVars, readerVars, x, events, op, response,
                   remaining, nOps, staleMax, takenLog, arrived, waited>>

\* get_info / get_events: the take returns a line, which is appended; the
\* loop calls the take again with the same timeout
StreamCollectGet ==
    /\ cpc = "get"
    /\ op.name \in {"collect_info", "collect_events", "process_events"}
    /\ Q[CollectQueue(op.name)] # <<>>
    /\ LET q == CollectQueue(op.name)
           item == Head(Q[q])
       IN  /\ Q' = [Q EXCEPT ![q] = Tail(@)]
           /\ takenLog' = Capped(takenLog, item)
           /\ x' = IF op.name = "collect_info" THEN Capped(x, item.line)
                   ELSE x
           /\ events' = IF op.name = "collect_events"
                        THEN Capped(events, item.line) ELSE events
           /\ remaining' = op.timeout
           /\ arrived' = FALSE
           /\ waited' = 0
    /\ UNCHANGED callers
    /\ UNCHANGED <<serialVars, written, readerVars, cpc, op, response,
                   result, nOps, staleMax, cleared>>

NextStream ==
    \/ ReaderLoop
    \/ ReaderReadEmpty
    \/ StreamReadLine
    \/ ReaderPut
    \/ CallSend
    \/ StreamClearInfo
    \/ StreamClearEvents
    \/ StreamClearResp
    \/ StreamWrite
    \/ CallCollect
    \/ StreamCollectGet
    \/ CollectTimeout
    \/ Wait
    \/ Return

\* Both threads are scheduled, readline() returns within the poll timeout,
\* and the time of a blocking get on an empty queue passes.  Nothing is
\* assumed about when the caller starts an operation.
SpecStream ==
    /\ Init
    /\ [][NextStream]_vars
    /\ WF_vars(ReaderLoop)
    /\ WF_vars(ReaderReadEmpty \/ StreamReadLine)
    /\ WF_vars(ReaderPut)
    /\ WF_vars(StreamClearInfo)
    /\ WF_vars(StreamClearEvents)
    /\ WF_vars(StreamClearResp)
    /\ WF_vars(StreamWrite)
    /\ WF_vars(StreamCollectGet)
    /\ WF_vars(CollectTimeout)
    /\ WF_vars(Wait)

CollectRunning ==
    cpc = "get" /\ op.name \in {"collect_info", "collect_events"}

\* C14: a call of get_info / get_events that is waiting for a line
\* eventually returns or raises.
C14_CollectTerminates == [](CollectRunning => <>(cpc = "done"))

\* C15: a send_command that has started to clear the queues eventually
\* reaches the write of its command.
C15_SendReachesWrite == [](Clearing => <>(cpc = "write"))

(***************************************************************************)
(* Rak811v2ResponseError built from any short code text.                   *)
(***************************************************************************)
\* longest code text tried
MaxCodeLen == 4

CodeAlphabet == {"0", "1", "6", "8", "9", " ", "-", "_", "x"}

CodeTexts == UNION {[1..n -> CodeAlphabet] : n \in 0..MaxCodeLen}

\* a session at rest and a code text about to be made into an error
InitErr ==
    /\ Q = [n \in QueueNames |-> <<>>]
    /\ read_done = FALSE
    /\ serial_open = TRUE
    /\ response_timeout = 1
    /\ event_timeout = MaxT
    /\ written = <<>>
    /\ rpc = "loop"
    /\ rline = <<>>
    /\ rtodo = <<>>
    /\ nRead = 0
    /\ pushes = <<>>
    /\ x = <<>>
    /\ events = <<>>
    /\ cpc = "idle"
    /\ op = NoOp
    /\ response \in CodeTexts
    /\ remaining = 0
    /\ result = NoResult
    /\ nOps = 0
    /\ staleMax = 0
    /\ takenLog = <<>>
    /\ cleared = <<>>
    /\ arrived = FALSE
    /\ waited = 0
    \* no thread is inside get_info / get_events
    /\ callers = [c \in {} |-> NoResult]

\* raise Rak811v2ResponseError(response)
RaiseResponseError ==
    /\ cpc = "idle"
    /\ Finish([kind |-> "ResponseError",
               val |-> Rak811v2ResponseError(response)])
    /\ UNCHANGED callers
    /\ UNCHANGED <<Q, serialVars, written, readerVars, x, events, op,
                   response, remaining, nOps, staleMax, takenLog, cleared,
                   arrived, waited>>

NextErr == RaiseResponseError

SpecErr == InitErr /\ [][NextErr]_vars

ErrDone == cpc = "done" /\ result.kind = "ResponseError"

\* C16: an error built from a code that parses as an integer of the status
\* table carries that integer and the message of the table, which for 99 is
\* "LoRa join failed", and its text is "[Errno <code>] <message>".
C16_KnownCodeMessage ==
    ErrDone =>
        LET e == result.val
        IN  (e.isInt /\ e.errno \in DOMAIN RESPONSE_MESSAGE) =>
                /\ e.strerror = RESPONSE_MESSAGE[e.errno]
                /\ e.errno = 99 => e.strerror = "LoRa join failed"
                /\ ErrorText(e) =
                       <<"[", "E", "r", "r", "n", "o", " ">>
                       \o IntToText(e.errno) \o <<"]", " ", e.strerror>>

\* a plain decimal literal: digits only, no leading zero
Canonical(code) ==
    /\ Len(code) > 0
    /\ \A i \in 1..Len(code) : code[i] \in Digits
    /\ Len(code) > 1 => code[1] # "0"

\* C17: an error built from a decimal literal carries the integer the
\* literal writes; when that integer (or any integer the code parses to) is
\* not in the status table the message is "Unknown"; an error built from a
\* text that is not an integer keeps the text as its code and has the
\* message "Unknown"; every code text yields an error.
C17_UnknownCodeFallback ==
    cpc = "done" =>
        LET e == result.val
        IN  /\ result.kind = "ResponseError"
            /\ Canonical(response) =>
                (e.isInt /\ IntToText(e.errno) = response)
            /\ (e.isInt /\ e.errno \notin DOMAIN RESPONSE_MESSAGE) =>
                e.strerror = "Unknown"
            /\ "x" \in Range(response) => ~e.isInt
            /\ ~e.isInt => (e.text = response /\ e.strerror = "Unknown")

C17_Witness ==
    /\ ErrDone
    /\ response = <<"9", "9", "9", "9">>
    /\ result.val.isInt
    /\ result.val.errno = 9999
    /\ result.val.strerror = "Unknown"

(***************************************************************************)
(* Event processing: Rak811v2._process_events, fed by a module that emits  *)
(* event lines.                                                            *)
(***************************************************************************)
Raw_EVENT_DOWNLINK ==
    RESPONSE_EVENT
    \o <<"5", ",", "1", ",", "1", "0", ",", "3", ",",
         "4", "8", "6", "5", "6", "C", "6", "C", "6", "F">>
    \o EOL
Raw_EVENT_86 == RESPONSE_EVENT \o <<"8", "6">> \o EOL

EventLines == {Raw_EVENT_DOWNLINK, Raw_EVENT_86}

\* readline() returns an event line; it is stripped and classified
ReaderReadEvent ==
    /\ rpc = "read"
    /\ nRead < MaxLines
    /\ \E raw \in EventLines :
        /\ DecodeOk(raw)
        /\ rline' = DecodeLine(raw)
        /\ rtodo' = ReadLoopRoute(DecodeLine(raw))
    /\ nRead' = nRead + 1
    /\ rpc' = "route"
    /\ UNCHANGED callers
    /\ UNCHANGED <<Q, serialVars, written, pushes, callerVars, arrived,
                   waited>>

\* str.split(sep) for a one-character separator: the fields, empty ones
\* included
RECURSIVE Split(_, _)
Split(s, sep) ==
    IF \A i \in 1..Len(s) : s[i] # sep THEN <<s>>
    ELSE LET k == CHOOSE i \in 1..Len(s) :
                      s[i] = sep /\ \A j \in 1..(i - 1) : s[j] # sep
         IN  <<SubSeq(s, 1, k - 1)>> \o Split(SubSeq(s, k + 1, Len(s)), sep)

\* Rak811v2._int(i): int(i) when it parses, else i itself
PyInt(i) ==
    [isInt |-> IsIntText(i),
     num |-> IF IsIntText(i) THEN IntOf(i) ELSE 0,
     text |-> IF IsIntText(i) THEN <<>> ELSE i]

\* the names bound at module level in rak811v2.py; builtins has none of the
\* names the module looks up besides these
ModuleGlobals ==
    {"hexlify", "IntEnum", "sleep", "GPIO", "Rak811v2Error",
     "Rak811v2Serial", "Rak811v2TimeoutError", "RESET_BCM_PORT",
     "RESET_DELAY", "RESET_POST", "RESPONSE_OK", "RESPONSE_ERROR",
     "RESPONSE_EVENT", "RESPONSE_OK_INIT", "ResponseCode",
     "RESPONSE_MESSAGE", "Rak811v2ResponseError", "Rak811v2EventError",
     "Rak811v2"}

\* Rak811v2._process_events(timeout): events = self.get_events(timeout)
CallProcessEvents ==
    \E t \in TimeoutArgs :
        /\ Begin([name |-> "process_events",
                  timeout |-> ResolveTimeout("RecvEvents_q", t),
                  command |-> <<>>, clearq |-> FALSE])
        /\ events' = FreshAccumulator(events)
        /\ cpc' = "get"
        /\ remaining' = ResolveTimeout("RecvEvents_q", t)
        /\ UNCHANGED <<Q, serialVars, written, readerVars, x, staleMax>>

\* _process_events, first turn of "for event in events": split, pop, _int,
\* then "if status == EventCode.RECV_DATA", which looks up the global name
\* EventCode; the name is bound nowhere and the lookup raises NameError.
\* The outcome keeps the status just computed and the list of the downlinks
\* handed to _add_downlink so far.
ProcessFirstEvent ==
    /\ cpc = "downlink_pass"
    /\ "EventCode" \notin ModuleGlobals
    /\ LET event_items == Split(events[1], ",")
           status == PyInt(Head(event_items))
       IN  Finish([kind |-> "NameError", val |-> status,
                   downlinks |-> <<>>])
    /\ UNCHANGED callers
    /\ UNCHANGED <<Q, serialVars, written, readerVars, x, events, op,
                   response, remaining, nOps, staleMax, takenLog, cleared,
                   arrived, waited>>

NextEvents ==
    \/ ReaderLoop
    \/ ReaderReadEmpty
    \/ ReaderReadEvent
    \/ ReaderPut
    \/ CallTake
    \/ TakeGet
    \/ TakeTimeout
    \/ CallCollect
    \/ CallProcessEvents
    \/ CollectGet
    \/ CollectTimeout
    \/ Wait
    \/ ProcessFirstEvent
    \/ Return

SpecEvents == Init /\ [][NextEvents]_vars

ProcessDone == cpc = "done" /\ op.name = "process_events"

\* the status of an event line "at+recv=<s>,...": the first field after the
\* prefix, as an integer when it parses
LineStatus(line) ==
    PyInt(Head(Split(Slice(line, Len(RESPONSE_EVENT)), ",")))

\* a benign status.  Of the three benign codes only received-data, 5, has
\* a value anywhere; no line of the model carries another integer status
\* than 5 and 86.
IsBenign(status) == status.isInt /\ status.num = 5

NonBenign(evs) == {k \in 1..Len(evs) : ~IsBenign(LineStatus(evs[k]))}

FirstOf(S) == CHOOSE k \in S : \A j \in S : k <= j

\* C18: event processing that collected events raises EventError exactly
\* when some collected event has a status that is not benign, and the error
\* carries the status of the first such event.
C18_EventErrorIffNonBenign ==
    (ProcessDone /\ events # <<>>) =>
        /\ result.kind = "EventError" <=> NonBenign(events) # {}
        /\ NonBenign(events) # {} =>
            result.val = LineStatus(events[FirstOf(NonBenign(events))])

\* C19: for the batch of a received-data line followed by a line of status
\* 86, event processing has handed the fields of the first line to the
\* downlink extraction and then raises EventError(86).
C19_DownlinkBeforeError ==
    (/\ ProcessDone
     /\ events = <<DecodeLine(Raw_EVENT_DOWNLINK), DecodeLine(Raw_EVENT_86)>>)
    =>
        /\ result.kind = "EventError"
        /\ result.val = LineStatus(DecodeLine(Raw_EVENT_86))
        /\ result.downlinks =
               <<Tail(Split(Slice(DecodeLine(Raw_EVENT_DOWNLINK),
                                  Len(RESPONSE_EVENT)), ","))>>

\* C20: every operation ends by returning data or by one of TimeoutError,
\* ResponseError, EventError.
C20_OnlyTypedErrors ==
    cpc = "done" =>
        result.kind \in {"return", "TimeoutError", "ResponseError",
                         "EventError"}

(***************************************************************************)
(* The queues under every operation that puts, gets or clears, with a      *)
(* module that emits one line per routing target and the session left      *)
(* open.                                                                   *)
(***************************************************************************)
\* a line for each branch of the routing chain that differs in its puts
QueueLines == {Raw_OK, Raw_ERROR, Raw_EVENT, Raw_INFO}

\* readline() returns a line that decodes; it is stripped and classified
QueueReadLine ==
    /\ rpc = "read"
    /\ nRead < MaxLines
    /\ \E raw \in QueueLines :
        /\ DecodeOk(raw)
        /\ rline' = DecodeLine(raw)
        /\ rtodo' = ReadLoopRoute(DecodeLine(raw))
    /\ nRead' = nRead + 1
    /\ rpc' = "route"
    /\ UNCHANGED callers
    /\ UNCHANGED <<Q, serialVars, written, pushes, callerVars, arrived,
                   waited>>

NextQueues ==
    \/ ReaderLoop
    \/ ReaderReadEmpty
    \/ QueueReadLine
    \/ ReaderPut
    \/ CallExecute
    \/ CallSend
    \/ ClearInfo
    \/ ClearEvents
    \/ ClearResp
    \/ Write
    \/ ExecuteGetResponse
    \/ ExecuteTimeout
    \/ Wait
    \/ CallTake
    \/ TakeGet
    \/ TakeTimeout
    \/ CallCollect
    \/ CollectGet
    \/ CollectTimeout
    \/ Return

SpecQueues == Init /\ [][NextQueues]_vars

\* the queue the operation in progress dequeues from with a blocking get
OperationQueue ==
    IF op.name \in {"execute", "take_response"} THEN "Resp_q"
    ELSE IF op.name \in {"take_info", "collect_info"} THEN "Info_q"
    ELSE "RecvEvents_q"

\* the items are in the order in which the read thread read their lines
Increasing(items) ==
    \A k \in 1..(Len(items) - 1) : items[k].id < items[k + 1].id

C22_CloseAfterReaderEnded ==
    /\ [](~serial_open => ReaderEnded)
    /\ [][(rpc = "read" /\ rpc' # rpc) => (serial_open /\ serial_open')]_vars
    /\ [][ReaderEnded =>
            /\ UNCHANGED readerVars
            /\ \A q \in QueueNames : Len(Q'[q]) <= Len(Q[q])]_vars

\* the signal came while a line was being routed: the thread completed the
\* two puts of that line, left its loop, and only then the port was closed
C22_Witness ==
    /\ ~serial_open
    /\ rpc = "stopped"
    /\ nRead = 1
    /\ pushes = <<>>
    /\ Q["Resp_q"] = <<[id |-> 1, line |-> DecodeLine(Raw_OK)]>>
    /\ Q["Info_q"] = <<[id |-> 1, line |-> DecodeLine(Raw_OK)]>>

\* C23: the line an execute takes as its response was emitted after the
\* command was written, so it was put on Resp_q while the get of that
\* execute was waiting for it: no line that the read thread put on Resp_q
\* between the end of the clear and the write is taken as the response.
C23_ResponseFollowsWrite ==
    (ExecuteDone /\ takenLog # <<>>) => arrived

(***************************************************************************)
(* Two threads inside get_info / get_events of one session.  self.x and    *)
(* self.events are attributes of the session, shared by the threads.  In   *)
(* "self.x.append(self._serial.get_info(timeout))" the method self.x.append*)
(* is looked up before the blocking get is entered, so the item goes to    *)
(* the list the attribute named when the wait began.  The caller variables *)
(* of the single-caller runs stay at rest.                                 *)
(***************************************************************************)
\* the list the attribute of collector n names
AttributeOf(n) == IF n = "collect_info" THEN x ELSE events

\* "self.x = []" / "self.events = []" by thread c rebinds the attribute: a
\* thread that has looked up append on the list named until now keeps that
\* list, which the attribute names no longer
Rebind(c, n) ==
    [d \in DOMAIN callers |->
        IF d # c /\ callers[d].name = n /\ callers[d].bound = "attribute"
        THEN [callers[d] EXCEPT !.bound = "detached"]
        ELSE callers[d]]

\* thread c calls get_info(timeout) / get_events(timeout): the attribute is
\* set to a new list, append is looked up on it and the take is entered
SharedCall(c) ==
    /\ c \notin DOMAIN callers
    /\ nOps < MaxOps
    /\ nOps' = nOps + 1
    /\ \E n \in {"collect_info", "collect_events"}, t \in TimeoutArgs :
        /\ x' = IF n = "collect_info" THEN FreshAccumulator(x) ELSE x
        /\ events' = IF n = "collect_events" THEN FreshAccumulator(events)
                     ELSE events
        /\ callers' =
               Rebind(c, n)
               @@ (c :> [pc |-> "get", name |-> n,
                         timeout |-> ResolveTimeout(CollectQueue(n), t),
                         remaining |-> ResolveTimeout(CollectQueue(n), t),
                         bound |-> "attribute", taken |-> <<>>,
                         result |-> NoResult])
    /\ UNCHANGED <<Q, serialVars, written, readerVars, cpc, op, response,
                   remaining, result, staleMax, takenLog, cleared, arrived,
                   waited>>

\* the take of thread c returns a line, which is appended to the list whose
\* append was looked up; the loop looks up append on the list the attribute
\* names now and enters the take again
SharedGet(c) ==
    /\ c \in DOMAIN callers
    /\ callers[c].pc = "get"
    /\ Q[CollectQueue(callers[c].name)] # <<>>
    /\ LET n == callers[c].name
           q == CollectQueue(n)
           item == Head(Q[q])
           seen == callers[c].bound = "attribute"
       IN  /\ Q' = [Q EXCEPT ![q] = Tail(@)]
           /\ x' = IF n = "collect_info" /\ seen THEN Append(x, item.line)
                   ELSE x
           /\ events' = IF n = "collect_events" /\ seen
                        THEN Append(events, item.line) ELSE events
           /\ callers' =
                  [callers EXCEPT
                      ![c].taken = Append(@, item),
                      ![c].bound = "attribute",
                      ![c].remaining = callers[c].timeout]
    /\ UNCHANGED <<serialVars, written, readerVars, cpc, op, response,
                   remaining, result, nOps, staleMax, takenLog, cleared,
                   arrived, waited>>

\* time passes while the take of thread c waits on an empty queue
SharedWait(c) ==
    /\ c \in DOMAIN callers
    /\ callers[c].pc = "get"
    /\ Q[CollectQueue(callers[c].name)] = <<>>
    /\ callers[c].remaining > 0
    /\ callers' = [callers EXCEPT ![c].remaining = @ - 1]
    /\ UNCHANGED <<Q, serialVars, written, readerVars, callerVars, arrived,
                   waited>>

\* the take of thread c raises Rak811v2TimeoutError: "if len(self.x) != 0:
\* break", then "return self.x", both reading the attribute; else re-raise
SharedTimeout(c) ==
    /\ c \in DOMAIN callers
    /\ callers[c].pc = "get"
    /\ Q[CollectQueue(callers[c].name)] = <<>>
    /\ GetTimedOut(callers[c].remaining)
    /\ LET acc == AttributeOf(callers[c].name)
       IN  callers' =
               [callers EXCEPT
                   ![c].pc = "done",
                   ![c].result =
                       IF CollectorReturns(acc)
                       THEN [kind |-> "return", val |-> acc]
                       ELSE TimeoutError]
    /\ UNCHANGED <<Q, serialVars, written, readerVars, callerVars, arrived,
                   waited>>

\* control is back in thread c
SharedReturn(c) ==
    /\ c \in DOMAIN callers
    /\ callers[c].pc = "done"
    /\ callers' = [d \in DOMAIN callers \ {c} |-> callers[d]]
    /\ UNCHANGED <<Q, serialVars, written, readerVars, callerVars, arrived,
                   waited>>

NextShared ==
    \/ ReaderLoop
    \/ ReaderReadEmpty
    \/ ReaderReadLine
    \/ ReaderPut
    \/ \E c \in Callers : SharedCall(c)
    \/ \E c \in Callers : SharedGet(c)
    \/ \E c \in Callers : SharedWait(c)
    \/ \E c \in Callers : SharedTimeout(c)
    \/ \E c \in Callers : SharedReturn(c)

SpecShared == Init /\ [][NextShared]_vars

\* C24: with two threads inside the collectors of one session, a thread
\* that dequeued nothing ends with TimeoutError and a thread that dequeued
\* items returns exactly those items, in the order it dequeued them: none
\* of them is missing and none dequeued by the other thread is among them.
C24_EachCallerItsOwnItems ==
    \A c \in DOMAIN callers :
        callers[c].pc = "done" =>
            IF callers[c].taken = <<>>
            THEN callers[c].result = TimeoutError
            ELSE callers[c].result =
                     [kind |-> "return", val |-> Lines(callers[c].taken)]

(***************************************************************************)
(* Independence of the three queues.                                       *)
(***************************************************************************)
\* C25: a blocking get that returns an item removes one item from its own
\* queue and leaves the other two queues as they are; a get that times out
\* and a send_command with clearq=False leave the three queues as they
\* are; the Info_q copy of an OK line that execute has taken as its
\* response, once the read thread has put it, is still on Info_q when
\* execute ends.
C25_QueueIndependence ==
    /\ [][(takenLog' # takenLog /\ takenLog' # <<>>) =>
            /\ Len(Q'[OperationQueue]) = Len(Q[OperationQueue]) - 1
            /\ \A q \in QueueNames \ {OperationQueue} : Q'[q] = Q[q]]_vars
    /\ [][(cpc = "get" /\ cpc' = "done" /\ takenLog' = takenLog) =>
            Q' = Q]_vars
    /\ [][(cpc' # cpc /\ op'.name = "send" /\ ~op'.clearq) => Q' = Q]_vars
    /\ []((/\ ExecuteDone
           /\ takenLog # <<>>
           /\ IsOkLine(takenLog[1].line)
           /\ takenLog[1].id <= FullyRouted) =>
              takenLog[1] \in Range(Q["Info_q"]))

\* execute has returned the OK line it took from Resp_q while an older info
\* line and the Info_q copy of that OK line are both still on Info_q
C25_Witness ==
    /\ ExecuteDone
    /\ result = [kind |-> "return", val |-> DecodeLine(Raw_OK)]
    /\ takenLog = <<[id |-> 2, line |-> DecodeLine(Raw_OK)]>>
    /\ Q["Resp_q"] = <<>>
    /\ Q["Info_q"] = <<[id |-> 1, line |-> DecodeLine(Raw_INFO)],
                       [id |-> 2, line |-> DecodeLine(Raw_OK)]>>

====
